---- MODULE Spec2Model ----
(***************************************************************************)
(* The link lifecycle of brev-ly: the urls table, the repository built on  *)
(* it, the LinkService operations and the HTTP handlers that answer them.  *)
(* A request suspends at each repository call (an await of one database    *)
(* statement); what runs between two suspension points is one step.        *)
(***************************************************************************)
EXTENDS Integers, FiniteSets, Sequences, TLC

\* ------------------------------------------------------------------ bounds
Keys == {"a", "b"}            \* shortenedUrl values the requests use
Origs == {"u", "v"}           \* originalUrl values the requests use
Reqs == {"r1", "r2"}          \* requests the server has in flight at once
MaxId == 2                    \* links ever created
MaxCount == 2                 \* cap of accessCount
MaxLinks == 5                 \* links in the table a client pages through
MaxLimit == 3                 \* largest limit a list request asks for
MaxNew == 2                   \* links created while a client pages
MaxPages == MaxLinks + MaxNew + 1   \* page requests one client makes
HighWaterMark == 2            \* rows the pass-through buffers before it pushes back

Undef == ""                   \* an absent optional field / undefined

VARIABLES
    urls,      \* the rows of the urls table
    nextId,    \* position of the uuidv7 generator (ids are time ordered)
    now,       \* the database clock behind created_at
    req,       \* per request: position, arguments, locals, result, reply
    call,      \* sequential harness: the call being made
    pre,       \* sequential harness: the table when that call began
    last,      \* sequential harness: the call that returned before this one
    hits,      \* sequential harness: successful access increments per id
    pager,     \* the client paging through GET /links and the last reply
    exp        \* one GET /links/export: the service call, its streams, the upload

vars == <<urls, nextId, now, req, call, pre, last, hits, pager, exp>>

\* ------------------------------------------------------------------ table
NoLink ==
    [id |-> 0, originalUrl |-> Undef, shortenedUrl |-> Undef,
     accessCount |-> 0, createdAt |-> 0]

NoData == [originalUrl |-> Undef, shortenedUrl |-> Undef]

Ids == 1..MaxId

\* select ... where shortened_url = k limit 1; result[0] or null
findByShortenedUrl(rows, k) ==
    LET m == {l \in rows : l.shortenedUrl = k}
    IN  IF m = {} THEN NoLink ELSE CHOOSE l \in m : TRUE

\* select ... where id = i limit 1; result[0] or null
findById(rows, i) ==
    LET m == {l \in rows : l.id = i}
    IN  IF m = {} THEN NoLink ELSE CHOOSE l \in m : TRUE

\* (variant: the column declared without unique())
NoUniqueViolation(rows, i, k) == FALSE

\* the unique constraint on shortened_url: another row already holds k

UniqueViolation(rows, i, k) ==
    \E l \in rows : l.shortenedUrl = k /\ l.id # i

\* (variant: the id derived from the number of rows)
FreshIdByCount(rows, n) == Cardinality(rows) + 1

\* the uuidv7 default of the id column
FreshId(rows, n) == n

\* (variant: the two columns of the insert swapped)
InsertedRowSwapped(i, t, d) ==
    [id |-> i, originalUrl |-> d.shortenedUrl, shortenedUrl |-> d.originalUrl,
     accessCount |-> 0, createdAt |-> t]

\* insert into urls (original_url, shortened_url) values (...) returning *
InsertedRow(i, t, d) ==
    [id |-> i, originalUrl |-> d.originalUrl, shortenedUrl |-> d.shortenedUrl,
     accessCount |-> 0, createdAt |-> t]

\* (variant: only original_url is ever set)
updateNoRename(rows, i, d) ==
    {IF l.id = i
        THEN [l EXCEPT
                !.originalUrl = IF d.originalUrl # Undef THEN d.originalUrl ELSE @]
        ELSE l : l \in rows}

\* (variant: the where clause missing)
updateAll(rows, i, d) ==
    {[l EXCEPT
        !.originalUrl = IF d.originalUrl # Undef THEN d.originalUrl ELSE @,
        !.shortenedUrl = IF d.shortenedUrl # Undef THEN d.shortenedUrl ELSE @]
     : l \in rows}

\* update urls set <provided fields> where id = i
update(rows, i, d) ==
    {IF l.id = i
        THEN [l EXCEPT
                !.originalUrl = IF d.originalUrl # Undef THEN d.originalUrl ELSE @,
                !.shortenedUrl = IF d.shortenedUrl # Undef THEN d.shortenedUrl ELSE @]
        ELSE l : l \in rows}

\* (variant: the filter inverted)
deleteOthers(rows, i) == {l \in rows : l.id = i}

\* delete from urls where id = i
delete(rows, i) == {l \in rows : l.id # i}

\* (variant: the where clause missing)
setAccessCountAll(rows, k, n) == {[l EXCEPT !.accessCount = n] : l \in rows}

\* update urls set access_count = n where shortened_url = k
setAccessCount(rows, k, n) ==
    {IF l.shortenedUrl = k THEN [l EXCEPT !.accessCount = n] ELSE l : l \in rows}

\* ---------------------------------------------------------------- requests
\* what an operation reads of the link it looked up once the lookup returned:
\* existing.id (updateLink, deleteLink), link.originalUrl (incrementAccessCount,
\* whose link.id is kept to tell which link was looked up)
Kept(o, l) ==
    [id |-> IF o \in {"updateLink", "deleteLink", "incrementAccessCount"} THEN l.id ELSE 0,
     originalUrl |-> IF o = "incrementAccessCount" THEN l.originalUrl ELSE Undef]

NoKept == [id |-> 0, originalUrl |-> Undef]

IdleReq ==
    [pc |-> "idle", op |-> "none", key |-> Undef, data |-> NoData,
     existing |-> NoKept, current |-> 0,
     result |-> "none", url |-> Undef, status |-> 0]

CreateCalls ==
    {[op |-> "createLink", key |-> Undef,
      data |-> [originalUrl |-> u, shortenedUrl |-> k]] : u \in Origs, k \in Keys}

\* updateLinkBodySchema: at least one field is provided
UpdateCalls ==
    {[op |-> "updateLink", key |-> k, data |-> [originalUrl |-> u, shortenedUrl |-> k2]] :
        k \in Keys,
        u \in Origs \cup {Undef},
        k2 \in Keys \cup {Undef}} \
    {[op |-> "updateLink", key |-> k, data |-> NoData] : k \in Keys}

DeleteCalls == {[op |-> "deleteLink", key |-> k, data |-> NoData] : k \in Keys}

AccessCalls == {[op |-> "incrementAccessCount", key |-> k, data |-> NoData] : k \in Keys}

Calls == CreateCalls \cup UpdateCalls \cup DeleteCalls \cup AccessCalls

\* GET /links/:shortenedUrl reads one row and writes nothing
GetCalls == {[op |-> "getOriginalUrl", key |-> k, data |-> NoData] : k \in Keys}

\* createLink requests that may still insert
Creating == Cardinality({r \in Reqs : req[r].op = "createLink" /\ req[r].pc \in {"find", "create"}})

\* incrementAccessCount requests that have not read the count yet
Unread ==
    Cardinality({r \in Reqs : req[r].op = "incrementAccessCount" /\ req[r].pc \in {"find", "read"}})

\* the largest count stored or about to be written
MaxAccess ==
    LET cs == {l.accessCount : l \in urls}
              \cup {req[r].current + 1 : r \in {x \in Reqs : req[x].pc = "write"}}
              \cup {0}
    IN  CHOOSE c \in cs : \A d \in cs : d <= c

\* the bounds of the model: creations and counter values still available
Admissible(c) ==
    /\ c.op = "createLink" => nextId + Creating <= MaxId
    /\ c.op = "incrementAccessCount" => MaxAccess + Unread < MaxCount

\* ------------------------------------------------------------ HTTP replies
\* (variant: the delete handler answers 204 whatever the result)
StatusOfDeleteAlways204(o, res) ==
    IF res = "THROWN" THEN 500
    ELSE IF o = "createLink" THEN
        (IF res = "DUPLICATE_SHORTENED_URL" THEN 409 ELSE 201)
    ELSE IF o = "deleteLink" THEN 204
    ELSE IF o = "updateLink" THEN
        (IF res = "NOT_FOUND" THEN 404
         ELSE IF res = "DUPLICATE_SHORTENED_URL" THEN 409
         ELSE IF res = "OK" THEN 200 ELSE 400)
    ELSE (IF res = "OK" THEN 200 ELSE 404)

\* the reply each handler sends for a service result; an exception that
\* leaves the service reaches the application's error handler
StatusOf(o, res) ==
    IF res = "THROWN" THEN 500
    ELSE IF o = "createLink" THEN
        (IF res = "DUPLICATE_SHORTENED_URL" THEN 409 ELSE 201)
    ELSE IF o = "deleteLink" THEN
        (IF res = "OK" THEN 204 ELSE 404)
    ELSE IF o = "updateLink" THEN
        (IF res = "NOT_FOUND" THEN 404
         ELSE IF res = "DUPLICATE_SHORTENED_URL" THEN 409
         ELSE IF res = "OK" THEN 200 ELSE 400)
    ELSE (IF res = "OK" THEN 200 ELSE 404)

\* the request returns: the service result, the url it carries, the reply status
Reply(q, res, u) ==
    [q EXCEPT !.pc = "done", !.result = res, !.url = u,
              !.status = StatusOf(q.op, res),
              !.data = NoData, !.existing = NoKept, !.current = 0]

Frame == UNCHANGED <<call, pre, last, hits, pager, exp>>

\* ------------------------------------------------------------- createLink
\* (variant: the existence check left out)
CreateFindNoCheck(r) ==
    LET q == req[r]
    IN  /\ q.pc = "find" /\ q.op = "createLink"
        /\ req' = [req EXCEPT ![r] = [q EXCEPT !.pc = "create"]]
        /\ UNCHANGED <<urls, nextId, now>>
        /\ Frame

\* LinkService.createLink, up to the await of repository.create
CreateFind(r) ==
    LET q == req[r]
        e == findByShortenedUrl(urls, q.data.shortenedUrl)
    IN  /\ q.pc = "find" /\ q.op = "createLink"
        /\ req' = [req EXCEPT ![r] =
                IF e # NoLink
                    THEN Reply(q, "DUPLICATE_SHORTENED_URL", Undef)
                    ELSE [q EXCEPT !.pc = "create"]]
        /\ UNCHANGED <<urls, nextId, now>>
        /\ Frame

\* repository.create: the insert, rejected by the unique constraint or done
CreateInsert(r) ==
    LET q == req[r]
        i == FreshId(urls, nextId)
        row == InsertedRow(i, now, q.data)
    IN  /\ q.pc = "create"
        /\ nextId' = nextId + 1
        /\ now' = now + 1
        /\ IF UniqueViolation(urls, i, q.data.shortenedUrl)
              THEN /\ urls' = urls
                   /\ req' = [req EXCEPT ![r] = Reply(q, "THROWN", Undef)]
              ELSE /\ urls' = urls \cup {row}
                   /\ req' = [req EXCEPT ![r] = Reply(q, "OK", Undef)]
        /\ Frame

\* ------------------------------------------------------------- updateLink
\* (variant: the not-found check left out)
UpdateFindNoCheck(r) ==
    LET q == req[r]
        e == findByShortenedUrl(urls, q.key)
    IN  /\ q.pc = "find" /\ q.op = "updateLink"
        /\ req' = [req EXCEPT ![r] =
                IF q.data.shortenedUrl # Undef /\ q.data.shortenedUrl # q.key
                    THEN [q EXCEPT !.pc = "conflict", !.existing = Kept(q.op, e)]
                    ELSE [q EXCEPT !.pc = "update", !.existing = Kept(q.op, e)]]
        /\ UNCHANGED <<urls, nextId, now>>
        /\ Frame

\* LinkService.updateLink, the lookup of the current key
UpdateFind(r) ==
    LET q == req[r]
        e == findByShortenedUrl(urls, q.key)
    IN  /\ q.pc = "find" /\ q.op = "updateLink"
        /\ req' = [req EXCEPT ![r] =
                IF e = NoLink THEN Reply(q, "NOT_FOUND", Undef)
                ELSE IF q.data.shortenedUrl # Undef /\ q.data.shortenedUrl # q.key
                    THEN [q EXCEPT !.pc = "conflict", !.existing = Kept(q.op, e)]
                    ELSE [q EXCEPT !.pc = "update", !.existing = Kept(q.op, e)]]
        /\ UNCHANGED <<urls, nextId, now>>
        /\ Frame

\* (variant: the conflict check left out)
UpdateFindNoConflict(r) ==
    LET q == req[r]
    IN  /\ q.pc = "conflict"
        /\ req' = [req EXCEPT ![r] = [q EXCEPT !.pc = "update"]]
        /\ UNCHANGED <<urls, nextId, now>>
        /\ Frame

\* LinkService.updateLink, the lookup of the new key
UpdateFindConflict(r) ==
    LET q == req[r]
        c == findByShortenedUrl(urls, q.data.shortenedUrl)
    IN  /\ q.pc = "conflict"
        /\ req' = [req EXCEPT ![r] =
                IF c # NoLink /\ c.id # q.existing.id
                    THEN Reply(q, "DUPLICATE_SHORTENED_URL", Undef)
                    ELSE [q EXCEPT !.pc = "update"]]
        /\ UNCHANGED <<urls, nextId, now>>
        /\ Frame

\* repository.update inside the try of LinkService.updateLink
UpdateWrite(r) ==
    LET q == req[r]
        i == q.existing.id
        rows == update(urls, i, q.data)
    IN  /\ q.pc = "update"
        /\ IF findById(urls, i) = NoLink
              \/ (q.data.shortenedUrl # Undef
                  /\ UniqueViolation(urls, i, q.data.shortenedUrl))
              THEN /\ urls' = urls
                   /\ req' = [req EXCEPT ![r] = Reply(q, "INVALID_DATA", Undef)]
              ELSE /\ urls' = rows
                   /\ req' = [req EXCEPT ![r] = Reply(q, "OK", Undef)]
        /\ UNCHANGED <<nextId, now>>
        /\ Frame

\* ------------------------------------------------------------- deleteLink
\* LinkService.deleteLink, the lookup
DeleteFind(r) ==
    LET q == req[r]
        e == findByShortenedUrl(urls, q.key)
    IN  /\ q.pc = "find" /\ q.op = "deleteLink"
        /\ req' = [req EXCEPT ![r] =
                IF e = NoLink THEN Reply(q, "NOT_FOUND", Undef)
                ELSE [q EXCEPT !.pc = "delete", !.existing = Kept(q.op, e)]]
        /\ UNCHANGED <<urls, nextId, now>>
        /\ Frame

\* repository.delete, then the success result
DeleteWrite(r) ==
    LET q == req[r]
    IN  /\ q.pc = "delete"
        /\ urls' = delete(urls, q.existing.id)
        /\ req' = [req EXCEPT ![r] = Reply(q, "OK", Undef)]
        /\ UNCHANGED <<nextId, now>>
        /\ Frame

\* --------------------------------------------------- incrementAccessCount
\* (variant: the not-found check left out)
AccessFindNoCheck(r) ==
    LET q == req[r]
        e == findByShortenedUrl(urls, q.key)
    IN  /\ q.pc = "find" /\ q.op = "incrementAccessCount"
        /\ req' = [req EXCEPT ![r] = [q EXCEPT !.pc = "read", !.existing = Kept(q.op, e)]]
        /\ UNCHANGED <<urls, nextId, now>>
        /\ Frame

\* LinkService.incrementAccessCount, the lookup
AccessFind(r) ==
    LET q == req[r]
        e == findByShortenedUrl(urls, q.key)
    IN  /\ q.pc = "find" /\ q.op = "incrementAccessCount"
        /\ req' = [req EXCEPT ![r] =
                IF e = NoLink THEN Reply(q, "NOT_FOUND", Undef)
                ELSE [q EXCEPT !.pc = "read", !.existing = Kept(q.op, e)]]
        /\ UNCHANGED <<urls, nextId, now>>
        /\ Frame

\* repository.incrementAccessCount, the select of the current count
AccessRead(r) ==
    LET q == req[r]
    IN  /\ q.pc = "read"
        /\ req' = [req EXCEPT ![r] =
                [q EXCEPT !.pc = "write",
                          !.current = findByShortenedUrl(urls, q.key).accessCount]]
        /\ UNCHANGED <<urls, nextId, now>>
        /\ Frame

\* repository.incrementAccessCount, the update to current + 1, then the result
AccessWrite(r) ==
    LET q == req[r]
    IN  /\ q.pc = "write"
        /\ urls' = setAccessCount(urls, q.key, q.current + 1)
        /\ req' = [req EXCEPT ![r] = Reply(q, "OK", q.existing.originalUrl)]
        /\ UNCHANGED <<nextId, now>>
        /\ Frame

\* --------------------------------------------------------- getOriginalUrl
\* (variant: the lookup counted as an access)
GetFindCounting(r) ==
    LET q == req[r]
        e == findByShortenedUrl(urls, q.key)
    IN  /\ q.pc = "find" /\ q.op = "getOriginalUrl"
        /\ urls' = setAccessCount(urls, q.key, e.accessCount + 1)
        /\ req' = [req EXCEPT ![r] =
                IF e = NoLink THEN Reply(q, "NOT_FOUND", Undef)
                ELSE Reply(q, "OK", e.originalUrl)]
        /\ UNCHANGED <<nextId, now>>
        /\ Frame

\* LinkService.getOriginalUrl
GetFind(r) ==
    LET q == req[r]
        e == findByShortenedUrl(urls, q.key)
    IN  /\ q.pc = "find" /\ q.op = "getOriginalUrl"
        /\ req' = [req EXCEPT ![r] =
                IF e = NoLink THEN Reply(q, "NOT_FOUND", Undef)
                ELSE Reply(q, "OK", e.originalUrl)]
        /\ UNCHANGED <<urls, nextId, now>>
        /\ Frame

Step(r) ==
    \/ CreateFind(r) \/ CreateInsert(r)
    \/ UpdateFind(r) \/ UpdateFindConflict(r) \/ UpdateWrite(r)
    \/ DeleteFind(r) \/ DeleteWrite(r)
    \/ AccessFind(r) \/ AccessRead(r) \/ AccessWrite(r)

\* ------------------------------------------------------ concurrent server
\* a request arrives while others may be suspended at a repository call
Call(r) ==
    /\ req[r].pc = "idle"
    /\ \E c \in Calls :
        /\ Admissible(c)
        /\ req' = [req EXCEPT ![r] =
                [IdleReq EXCEPT !.pc = "find", !.op = c.op, !.key = c.key, !.data = c.data]]
    /\ UNCHANGED <<urls, nextId, now>>
    /\ Frame

\* the reply is sent
Return(r) ==
    /\ req[r].pc = "done"
    /\ req' = [req EXCEPT ![r] = IdleReq]
    /\ UNCHANGED <<urls, nextId, now>>
    /\ Frame

\* --------------------------------------------------------------- listLinks
NoCursor == 0                 \* no cursor in the query (undefined is falsy)

Repos == {"drizzle", "memory"}

\* how a client chooses the cursor of its next request
Clients == {"nextCursor", "lastSeen", "direct"}

Limits == 0..MaxLimit

Cursors == 0..(MaxLinks + 1)

\* the rows in ascending id order (order by id / sort by id)
RECURSIVE OrderById(_)
OrderById(rows) ==
    IF rows = {} THEN <<>>
    ELSE LET first == CHOOSE l \in rows : \A m \in rows : l.id <= m.id
         IN  <<first>> \o OrderById(rows \ {first})

\* Array.prototype.slice(0, e); for e >= 0 also the rows a query limit e keeps
slice(s, e) ==
    LET end == IF e < 0 THEN (IF Len(s) + e < 0 THEN 0 ELSE Len(s) + e)
               ELSE (IF e > Len(s) THEN Len(s) ELSE e)
    IN  SubSeq(s, 1, end)

\* (variant: the cursor row itself is left out)
getAllLinksAfterCursor(rows, limit, cursor) ==
    LET filtered == IF cursor # NoCursor THEN {l \in rows : l.id > cursor} ELSE rows
        result == slice(OrderById(filtered), limit + 1)
        hasNextPage == Len(result) > limit
    IN  [links |-> slice(result, limit),
         nextCursor |-> IF hasNextPage THEN result[limit + 1].id ELSE NoCursor]

\* DrizzleLinkRepository.getAllLinks:
\* select ... order by id limit (limit + 1) [where id >= cursor]
getAllLinks(rows, limit, cursor) ==
    LET filtered == IF cursor # NoCursor THEN {l \in rows : l.id >= cursor} ELSE rows
        result == slice(OrderById(filtered), limit + 1)
        hasNextPage == Len(result) > limit
    IN  [links |-> slice(result, limit),
         nextCursor |-> IF hasNextPage THEN result[limit + 1].id ELSE NoCursor]

\* MemoryLinkRepository.getAllLinks: sorted.filter(l => l.id > cursor)
memoryGetAllLinks(rows, limit, cursor) ==
    LET sorted == OrderById(rows)
        filtered == IF cursor # NoCursor
                       THEN OrderById({l \in rows : l.id > cursor})
                       ELSE sorted
        paginated == slice(filtered, limit + 1)
        hasNextPage == Len(paginated) > limit
    IN  [links |-> slice(paginated, limit),
         nextCursor |-> IF hasNextPage THEN paginated[limit + 1].id ELSE NoCursor]

\* LinkService.listLinks over the repository the service was built with
listLinks(repo, rows, limit, cursor) ==
    IF repo = "memory" THEN memoryGetAllLinks(rows, limit, cursor)
    ELSE getAllLinks(rows, limit, cursor)

NoPager ==
    [repo |-> "drizzle", client |-> "none", limit |-> 0, state |-> "off",
     cursor |-> NoCursor, page |-> <<>>, nextCursor |-> NoCursor,
     seen |-> <<>>, sizes |-> <<>>,
     first |-> {},       \* the ids stored when the first page was requested
     stable |-> {}]      \* those of them not deleted since

\* the ids of the links of a reply, in the order of the reply
PageIds(res) == [i \in 1..Len(res.links) |-> res.links[i].id]

\* the client keeps going while the reply carries a nextCursor
StateAfter(res) == IF res.nextCursor # NoCursor THEN "more" ELSE "end"

\* GET /links?limit=n : the first page, links replaced by the reply
ListFirst ==
    LET res == listLinks(pager.repo, urls, pager.limit, NoCursor)
    IN  /\ pager.state = "ready" /\ pager.client \in {"nextCursor", "lastSeen"}
        /\ pager' = [pager EXCEPT !.state = StateAfter(res), !.cursor = NoCursor,
                                  !.page = PageIds(res), !.nextCursor = res.nextCursor,
                                  !.seen = PageIds(res), !.sizes = <<Len(res.links)>>,
                                  !.first = {l.id : l \in urls},
                                  !.stable = {l.id : l \in urls}]
        /\ UNCHANGED <<urls, nextId, now, req, call, pre, last, hits, exp>>

\* GET /links?limit=n&cursor=c : a further page, appended to the links shown
ListMore ==
    LET c == IF pager.client = "nextCursor" THEN pager.nextCursor
             ELSE pager.page[Len(pager.page)]
        res == listLinks(pager.repo, urls, pager.limit, c)
    IN  /\ pager.state = "more" /\ pager.client \in {"nextCursor", "lastSeen"}
        /\ pager.client = "lastSeen" => pager.page # <<>>
        /\ Len(pager.sizes) < MaxPages
        /\ pager' = [pager EXCEPT !.state = StateAfter(res), !.cursor = c,
                                  !.page = PageIds(res), !.nextCursor = res.nextCursor,
                                  !.seen = @ \o PageIds(res),
                                  !.sizes = Append(@, Len(res.links))]
        /\ UNCHANGED <<urls, nextId, now, req, call, pre, last, hits, exp>>

\* one list request with any cursor
ListAt ==
    /\ pager.state # "off" /\ pager.client = "direct"
    /\ \E c \in Cursors :
        LET res == listLinks(pager.repo, urls, pager.limit, c)
        IN  pager' = [pager EXCEPT !.state = StateAfter(res), !.cursor = c,
                                   !.page = PageIds(res), !.nextCursor = res.nextCursor]
    /\ UNCHANGED <<urls, nextId, now, req, call, pre, last, hits, exp>>

\* ---------------------------------------------------- exportLinksToCSVFile
Header == "Original URL,Shortened URL,Access Count,Created At"

\* one data row of copy (...) to stdout with (format csv, header true)
CsvRow(l) ==
    l.originalUrl \o "," \o l.shortenedUrl \o ","
        \o ToString(l.accessCount) \o "," \o ToString(l.createdAt)

\* (variant: header false)
streamAllLinksNoHeader(rows) ==
    [i \in 1..Cardinality(rows) |-> CsvRow(OrderById(rows)[i])]

\* DrizzleLinkRepository.streamAllLinks: the header, then the rows order by id asc
streamAllLinks(rows) ==
    <<Header>> \o [i \in 1..Cardinality(rows) |-> CsvRow(OrderById(rows)[i])]

NoExport ==
    [pc |-> "off", result |-> "none", status |-> 0,
     source |-> "none", todo |-> <<>>,       \* the repository stream, rows not yet read
     pass |-> "none", buf |-> <<>>,          \* the PassThrough and the rows it holds
     pipe |-> "none",                        \* pipelinePromise
     unhandled |-> FALSE,                    \* it rejected with no handler attached
     upload |-> "none", sent |-> <<>>]       \* the upload's promise, rows it has taken

\* the handler's reply for the service's result
ExportStatus(res) == IF res = "OK" THEN 200 ELSE 500

ExportFrame == UNCHANGED <<urls, nextId, now, req, call, pre, last, hits, pager>>

\* GET /links/export arrives: service.exportLinksToCSVFile() is called
ExportCall ==
    /\ exp.pc = "idle"
    /\ exp' = [exp EXCEPT !.pc = "stream"]
    /\ ExportFrame

\* await repository.streamAllLinks() resolves; the pipeline is started and
\* uploadFileToStorage is called with the pass-through
StreamOpens ==
    /\ exp.pc = "stream"
    /\ exp' = [exp EXCEPT !.pc = "upload", !.source = "open", !.todo = streamAllLinks(urls),
                          !.pass = "open", !.pipe = "running", !.upload = "running"]
    /\ ExportFrame

\* await repository.streamAllLinks() rejects: the catch returns the failure
StreamRejects ==
    /\ exp.pc = "stream"
    /\ exp' = [exp EXCEPT !.pc = "done", !.result = "FAILED", !.status = ExportStatus("FAILED")]
    /\ ExportFrame

\* the pipeline moves one row into the pass-through, unless it pushes back
PipeRow ==
    /\ exp.pipe = "running" /\ exp.source = "open" /\ exp.todo # <<>>
    /\ Len(exp.buf) < HighWaterMark
    /\ exp' = [exp EXCEPT !.todo = Tail(@), !.buf = Append(@, Head(exp.todo))]
    /\ ExportFrame

\* the repository stream is exhausted: the pipeline ends the pass-through
SourceEnds ==
    /\ exp.pipe = "running" /\ exp.source = "open" /\ exp.todo = <<>>
    /\ exp' = [exp EXCEPT !.source = "ended", !.pass = "ended"]
    /\ ExportFrame

\* the pass-through has finished: pipelinePromise resolves
PipeDone ==
    /\ exp.pipe = "running" /\ exp.pass = "ended"
    /\ exp' = [exp EXCEPT !.pipe = "done"]
    /\ ExportFrame

\* the repository stream errors: the pipeline destroys both streams and
\* pipelinePromise rejects; only await pipelinePromise attaches a handler to it
PipeFails ==
    /\ exp.pipe = "running" /\ exp.source = "open"
    /\ exp' = [exp EXCEPT !.source = "destroyed", !.pass = "destroyed", !.buf = <<>>,
                          !.pipe = "failed", !.unhandled = (exp.pc # "pipeline")]
    /\ ExportFrame

\* the upload takes one row from the pass-through
UploadRead ==
    /\ exp.upload = "running" /\ exp.pass \in {"open", "ended"} /\ exp.buf # <<>>
    /\ exp' = [exp EXCEPT !.buf = Tail(@), !.sent = Append(@, Head(exp.buf))]
    /\ ExportFrame

\* the upload has read the pass-through to its end and stored the object
UploadDone ==
    /\ exp.upload = "running" /\ exp.pass = "ended" /\ exp.buf = <<>>
    /\ exp' = [exp EXCEPT !.upload = "done"]
    /\ ExportFrame

\* the upload rejects (storage or transport error, or its content stream destroyed)
UploadFails ==
    /\ exp.upload = "running"
    /\ exp' = [exp EXCEPT !.upload = "failed"]
    /\ ExportFrame

\* await uploadFileToStorage(...) settles
AwaitUpload ==
    /\ exp.pc = "upload" /\ exp.upload \in {"done", "failed"}
    /\ exp' = IF exp.upload = "done" THEN [exp EXCEPT !.pc = "pipeline"]
              ELSE [exp EXCEPT !.pc = "done", !.result = "FAILED",
                               !.status = ExportStatus("FAILED")]
    /\ ExportFrame

\* (variant: the result is returned once the upload has resolved)
ReturnAfterUpload ==
    /\ exp.pc = "pipeline"
    /\ exp' = [exp EXCEPT !.pc = "done", !.result = "OK", !.status = ExportStatus("OK")]
    /\ ExportFrame

\* await pipelinePromise settles; return makeRight({ reportUrl: url })
AwaitPipeline ==
    /\ exp.pc = "pipeline" /\ exp.pipe \in {"done", "failed"}
    /\ exp' = IF exp.pipe = "done"
                 THEN [exp EXCEPT !.pc = "done", !.result = "OK", !.status = ExportStatus("OK")]
                 ELSE [exp EXCEPT !.pc = "done", !.result = "FAILED",
                                  !.status = ExportStatus("FAILED")]
    /\ ExportFrame

NoCall == [op |-> "none", key |-> Undef, data |-> NoData]

NoLast == [op |-> "none", key |-> Undef, result |-> "none"]

\* the shortenedUrl a call is about
Target(c) == IF c.op = "createLink" THEN c.data.shortenedUrl ELSE c.key

Init ==
    /\ urls = {}
    /\ nextId = 1
    /\ now = 1
    /\ req = [r \in Reqs |-> IdleReq]
    /\ call = NoCall
    /\ pre = {}
    /\ last = NoLast
    /\ hits = [i \in Ids |-> 0]
    /\ pager = NoPager
    /\ exp = NoExport

Next == \E r \in Reqs : Call(r) \/ Step(r) \/ Return(r)

Spec == Init /\ [][Next]_vars

\* ------------------------------------------------- all five link routes
\* the concurrent server with GET /links/:shortenedUrl served as well
HttpCall(r) ==
    /\ req[r].pc = "idle"
    /\ \E c \in Calls \cup GetCalls :
        /\ Admissible(c)
        /\ req' = [req EXCEPT ![r] =
                [IdleReq EXCEPT !.pc = "find", !.op = c.op, !.key = c.key, !.data = c.data]]
    /\ UNCHANGED <<urls, nextId, now>>
    /\ Frame

HttpNext == \E r \in Reqs : HttpCall(r) \/ Step(r) \/ GetFind(r) \/ Return(r)

HttpSpec == Init /\ [][HttpNext]_vars

\* ------------------------------------------------------ sequential caller
\* each call is awaited before the next is made (the tests' await chains)
AllIdle == \A r \in Reqs : req[r].pc = "idle"

SeqCall(r) ==
    /\ AllIdle
    /\ \E c \in Calls \cup GetCalls :
        /\ Admissible(c)
        /\ req' = [req EXCEPT ![r] =
                [IdleReq EXCEPT !.pc = "find", !.op = c.op, !.key = c.key, !.data = c.data]]
        /\ call' = c
    /\ pre' = urls
    /\ UNCHANGED <<urls, nextId, now, last, hits, pager, exp>>

SeqReturn(r) ==
    LET q == req[r]
        looked == findByShortenedUrl(pre, call.key)
    IN  /\ q.pc = "done"
        /\ req' = [req EXCEPT ![r] = IdleReq]
        /\ last' = [op |-> call.op, key |-> Target(call), result |-> q.result]
        /\ hits' = IF q.op = "incrementAccessCount" /\ q.result = "OK"
                      THEN [hits EXCEPT ![looked.id] = @ + 1]
                      ELSE hits
        /\ UNCHANGED <<urls, nextId, now, call, pre, pager, exp>>

SeqNext == \E r \in Reqs : SeqCall(r) \/ Step(r) \/ GetFind(r) \/ SeqReturn(r)

SeqSpec == Init /\ [][SeqNext]_vars

\* --------------------------------------------------------- paging client
\* the key populateLinks gives the link it creates i-th (it counts from 0)
ShortKey(i) == "short" \o ToString(i - 1)

\* a table after populateLinks and deletions: the links with the ids in S
Populated(S) ==
    {InsertedRow(i, i, [originalUrl |-> "u", shortenedUrl |-> ShortKey(i)]) : i \in S}

PageInit ==
    /\ urls \in {Populated(S) : S \in SUBSET (1..MaxLinks)}
    /\ nextId = MaxLinks + 1
    /\ now = MaxLinks + 1
    /\ req = [r \in Reqs |-> IdleReq]
    /\ call = NoCall
    /\ pre = {}
    /\ last = NoLast
    /\ hits = [i \in Ids |-> 0]
    /\ exp = NoExport
    /\ pager \in {[NoPager EXCEPT !.repo = rp, !.client = c, !.limit = n, !.state = "ready"] :
                    rp \in Repos, c \in Clients, n \in Limits}

PageNext == ListFirst \/ ListMore \/ ListAt

PageSpec == PageInit /\ [][PageNext]_vars

\* ------------------------------------------- paging while others write
\* another request's insert lands between two page requests
PageCreate ==
    /\ pager.client = "nextCursor" /\ pager.state = "more"
    /\ nextId <= MaxLinks + MaxNew
    /\ urls' = urls \cup {InsertedRow(FreshId(urls, nextId), now,
                                      [originalUrl |-> "u", shortenedUrl |-> ShortKey(nextId)])}
    /\ nextId' = nextId + 1
    /\ now' = now + 1
    /\ UNCHANGED <<req, call, pre, last, hits, pager, exp>>

\* another request's delete lands between two page requests
PageDelete ==
    /\ pager.client = "nextCursor" /\ pager.state = "more"
    /\ \E l \in urls :
        /\ urls' = delete(urls, l.id)
        /\ pager' = [pager EXCEPT !.stable = @ \ {l.id}]
    /\ UNCHANGED <<nextId, now, req, call, pre, last, hits, exp>>

WritePageInit == PageInit /\ pager.client = "nextCursor" /\ pager.limit >= 1

WritePageNext == ListFirst \/ ListMore \/ PageCreate \/ PageDelete

WritePageSpec == WritePageInit /\ [][WritePageNext]_vars

\* ---------------------------------------------------------------- export
ExportInit ==
    /\ urls \in {Populated(S) : S \in SUBSET (1..MaxLinks)}
    /\ nextId = MaxLinks + 1
    /\ now = MaxLinks + 1
    /\ req = [r \in Reqs |-> IdleReq]
    /\ call = NoCall
    /\ pre = {}
    /\ last = NoLast
    /\ hits = [i \in Ids |-> 0]
    /\ pager = NoPager
    /\ exp = [NoExport EXCEPT !.pc = "idle"]

ExportNext ==
    \/ ExportCall \/ StreamOpens \/ StreamRejects
    \/ PipeRow \/ SourceEnds \/ PipeDone \/ PipeFails
    \/ UploadRead \/ UploadDone \/ UploadFails
    \/ AwaitUpload \/ AwaitPipeline

ExportSpec == ExportInit /\ [][ExportNext]_vars

\* the event loop runs every continuation and stream step that is ready, and
\* an upload whose content stream was destroyed rejects; failures are not forced
ExportFairness ==
    /\ WF_vars(ExportCall) /\ WF_vars(StreamOpens \/ StreamRejects)
    /\ WF_vars(PipeRow) /\ WF_vars(SourceEnds) /\ WF_vars(PipeDone)
    /\ WF_vars(UploadRead) /\ WF_vars(UploadDone)
    /\ WF_vars(UploadFails /\ exp.pass = "destroyed")
    /\ WF_vars(AwaitUpload) /\ WF_vars(AwaitPipeline)

ExportLiveSpec == ExportSpec /\ ExportFairness


\* ================================================================== claims
Done(r) == req[r].pc = "done"

IdsOf(rows) == {l.id : l \in rows}

\* C1: in every reachable state of the table, whatever the interleaving of
\* concurrent createLink, updateLink and deleteLink requests, no two stored
\* links have the same shortenedUrl.
C1_UniqueShortenedUrl ==
    \A l \in urls : \A m \in urls : l.shortenedUrl = m.shortenedUrl => l = m

\* the constraint has rejected a concurrent writer while two links are stored
C1_Witness ==
    /\ Cardinality(urls) = 2
    /\ \E r \in Reqs : Done(r) /\ req[r].result \in {"THROWN", "INVALID_DATA"}

\* C2: createLink with a shortenedUrl that a link already holds returns
\* DUPLICATE_SHORTENED_URL and leaves the table as it was; so the second of two
\* createLink calls with the same shortenedUrl yields DUPLICATE_SHORTENED_URL.
C2_DuplicateOnCreate ==
    \A r \in Reqs :
        (/\ Done(r) /\ call.op = "createLink"
         /\ \/ findByShortenedUrl(pre, Target(call)) # NoLink
            \/ (last.op = "createLink" /\ last.key = Target(call)))
        => (req[r].result = "DUPLICATE_SHORTENED_URL" /\ req[r].status = 409
            /\ urls = pre)

\* the second of two consecutive createLink calls with one key has returned
C2_Witness ==
    \E r \in Reqs :
        /\ Done(r) /\ call.op = "createLink"
        /\ last.op = "createLink" /\ last.key = Target(call) /\ last.result = "OK"
        /\ req[r].result = "DUPLICATE_SHORTENED_URL"

\* C3: for every originalUrl and every shortenedUrl not yet in the table,
\* createLink succeeds and findByShortenedUrl on that key then returns a link
\* with the originalUrl and shortenedUrl of the input and accessCount 0.
C3_CreateThenFind ==
    \A r \in Reqs :
        (/\ Done(r) /\ call.op = "createLink"
         /\ findByShortenedUrl(pre, Target(call)) = NoLink)
        => LET l == findByShortenedUrl(urls, Target(call))
           IN  /\ req[r].result = "OK"
               /\ l # NoLink
               /\ l.originalUrl = call.data.originalUrl
               /\ l.shortenedUrl = call.data.shortenedUrl
               /\ l.accessCount = 0

\* a createLink of a free key has returned while another link is stored
C3_Witness ==
    \E r \in Reqs :
        /\ Done(r) /\ call.op = "createLink" /\ req[r].result = "OK"
        /\ findByShortenedUrl(pre, Target(call)) = NoLink
        /\ pre # {}

\* C4: when two createLink requests for one shortenedUrl both pass the existence
\* check, the one the unique constraint rejects ends with the typed result
\* DUPLICATE_SHORTENED_URL (409): no exception leaves the service, no 500.
C4_ConcurrentDuplicateIsTyped ==
    \A r \in Reqs :
        (Done(r) /\ req[r].op = "createLink")
        => (req[r].result \in {"OK", "DUPLICATE_SHORTENED_URL"}
            /\ req[r].status \in {201, 409})

\* C5: in every step of every interleaving, the accessCount of a link that
\* stays in the table is at least what it was.
C5_AccessCountNeverDecreases ==
    [][\A l \in urls : \A m \in urls' :
            m.id = l.id => m.accessCount >= l.accessCount]_vars

\* C6: incrementAccessCount called N times, each call returning before the
\* next is made, leaves the link with accessCount = N (counted from creation).
C6_SequentialIncrements ==
    AllIdle => \A l \in urls : l.accessCount = hits[l.id]

\* a link has been incremented up to the cap, one awaited call at a time
C6_Witness ==
    /\ AllIdle
    /\ \E l \in urls : l.accessCount = MaxCount /\ hits[l.id] = MaxCount

\* C7: a link's id is fixed at creation: updateLink (a rename included) and
\* incrementAccessCount leave it as it is, and an id that was ever assigned is
\* never given to a link created later.
C7_IdAssignedOnce ==
    [][/\ \A m \in urls' : m.id \in IdsOf(urls) \/ m.id >= nextId
       /\ \A r \in Reqs :
            (req[r].pc \in {"update", "write"} /\ Done(r)')
            => /\ IdsOf(urls') = IdsOf(urls)
               /\ \A l \in urls : findById(urls', l.id).createdAt = l.createdAt
       /\ \A r \in Reqs :
            (req[r].pc = "update" /\ Done(r)' /\ req'[r].result = "OK"
             /\ req[r].data.shortenedUrl # Undef)
            => findByShortenedUrl(urls', req[r].data.shortenedUrl).id
                    = req[r].existing.id]_vars

\* a link was deleted and the key was then given to a link created later,
\* under a new id
C7_Witness ==
    \E r \in Reqs : \E x \in Reqs :
        /\ Done(r) /\ req[r].op = "deleteLink" /\ req[r].result = "OK"
        /\ Done(x) /\ req[x].op = "createLink" /\ req[x].result = "OK"
        /\ \E l \in urls : l.shortenedUrl = req[r].key /\ l.id = MaxId
        /\ Cardinality(urls) = 1

\* C8: after deleteLink succeeds on the key of an existing link,
\* findByShortenedUrl on the key and findById on the link's id return absent,
\* and a second deleteLink on the key returns NOT_FOUND and changes nothing.
C8_DeleteThenAbsent ==
    \A r \in Reqs :
        (Done(r) /\ call.op = "deleteLink")
        => LET was == findByShortenedUrl(pre, call.key)
           IN  /\ was # NoLink
                    => /\ req[r].result = "OK"
                       /\ findByShortenedUrl(urls, call.key) = NoLink
                       /\ findById(urls, was.id) = NoLink
               /\ (was = NoLink
                   \/ (last.op = "deleteLink" /\ last.key = call.key
                       /\ last.result = "OK"))
                    => /\ req[r].result = "NOT_FOUND"
                       /\ req[r].status = 404
                       /\ urls = pre

\* the second of two consecutive deleteLink calls on one key has returned
C8_Witness ==
    \E r \in Reqs :
        /\ Done(r) /\ call.op = "deleteLink"
        /\ last.op = "deleteLink" /\ last.key = call.key /\ last.result = "OK"
        /\ req[r].result = "NOT_FOUND"
        /\ urls # {}

\* C9: repository delete(id), called with an id that no stored link has, fails
\* with NOT_FOUND (it does not complete as a no-op) and leaves the table as it
\* was.
C9_DeleteOfAbsentIdFails ==
    [][\A r \in Reqs :
            (/\ req[r].pc = "delete" /\ Done(r)'
             /\ findById(urls, req[r].existing.id) = NoLink)
            => (req'[r].result # "OK" /\ urls' = urls)]_vars

\* C10: for two distinct stored links A and B, updateLink on A's key with
\* shortenedUrl set to B's key returns DUPLICATE_SHORTENED_URL, and every field
\* of A and of B is afterwards as before.
C10_RenameOntoOtherLink ==
    \A r \in Reqs :
        (Done(r) /\ call.op = "updateLink")
        => LET A == findByShortenedUrl(pre, call.key)
               B == findByShortenedUrl(pre, call.data.shortenedUrl)
           IN  (A # NoLink /\ B # NoLink /\ A.id # B.id)
               => /\ req[r].result = "DUPLICATE_SHORTENED_URL"
                  /\ req[r].status = 409
                  /\ findById(urls, A.id) = A
                  /\ findById(urls, B.id) = B

\* such an update, carrying a new originalUrl as well, has returned
C10_Witness ==
    \E r \in Reqs :
        /\ Done(r) /\ call.op = "updateLink"
        /\ call.data.originalUrl # Undef
        /\ LET A == findByShortenedUrl(pre, call.key)
               B == findByShortenedUrl(pre, call.data.shortenedUrl)
           IN  A # NoLink /\ B # NoLink /\ A.id # B.id
                /\ A.originalUrl # call.data.originalUrl

\* C11: updateLink called with a current key that no stored link holds returns
\* NOT_FOUND, whatever the payload, and leaves the table as it was.
C11_UpdateOfAbsentKey ==
    \A r \in Reqs :
        (/\ Done(r) /\ call.op = "updateLink"
         /\ findByShortenedUrl(pre, call.key) = NoLink)
        => (req[r].result = "NOT_FOUND" /\ req[r].status = 404 /\ urls = pre)

\* an updateLink of an absent key, naming a key another link holds, has returned
C11_Witness ==
    \E r \in Reqs :
        /\ Done(r) /\ call.op = "updateLink"
        /\ findByShortenedUrl(pre, call.key) = NoLink
        /\ findByShortenedUrl(pre, call.data.shortenedUrl) # NoLink
        /\ call.data.originalUrl # Undef

\* C12: after updateLink on key k succeeds with a new shortenedUrl k2 # k,
\* findByShortenedUrl(k) returns absent and findByShortenedUrl(k2) returns a
\* link whose id is the id the link had under k.
C12_RenameMovesTheKey ==
    \A r \in Reqs :
        (/\ Done(r) /\ call.op = "updateLink" /\ req[r].result = "OK"
         /\ call.data.shortenedUrl # Undef /\ call.data.shortenedUrl # call.key)
        => /\ findByShortenedUrl(urls, call.key) = NoLink
           /\ findByShortenedUrl(urls, call.data.shortenedUrl) # NoLink
           /\ findByShortenedUrl(urls, call.data.shortenedUrl).id
                = findByShortenedUrl(pre, call.key).id

\* a rename has succeeded while another link is stored
C12_Witness ==
    \E r \in Reqs :
        /\ Done(r) /\ call.op = "updateLink" /\ req[r].result = "OK"
        /\ call.data.shortenedUrl # Undef /\ call.data.shortenedUrl # call.key
        /\ Cardinality(pre) = 1 /\ nextId > 2

\* C13: a successful updateLink changes only the fields present in its payload,
\* on the targeted link only: absent fields, id, createdAt and accessCount keep
\* their values, and every other link is unchanged.
C13_UpdateFrame ==
    \A r \in Reqs :
        (Done(r) /\ call.op = "updateLink" /\ req[r].result = "OK")
        => LET A == findByShortenedUrl(pre, call.key)
               B == findById(urls, A.id)
               d == call.data
           IN  /\ A # NoLink /\ B # NoLink
               /\ B.createdAt = A.createdAt
               /\ B.accessCount = A.accessCount
               /\ B.originalUrl =
                    IF d.originalUrl # Undef THEN d.originalUrl ELSE A.originalUrl
               /\ B.shortenedUrl =
                    IF d.shortenedUrl # Undef THEN d.shortenedUrl ELSE A.shortenedUrl
               /\ urls \ {B} = pre \ {A}

\* an update of the originalUrl alone has succeeded on a link that was
\* accessed, while another link is stored
C13_Witness ==
    \E r \in Reqs :
        /\ Done(r) /\ call.op = "updateLink" /\ req[r].result = "OK"
        /\ call.data.shortenedUrl = Undef
        /\ Cardinality(pre) = 2
        /\ LET A == findByShortenedUrl(pre, call.key)
           IN  A.accessCount > 0 /\ A.originalUrl # call.data.originalUrl

\* C14: under any interleaving, updateLink returns INVALID_DATA only when the
\* store rejects the update for a reason other than a missing target or a key
\* conflict: a target that is gone when the write runs yields NOT_FOUND, a new
\* shortenedUrl held by another link when the write runs yields
\* DUPLICATE_SHORTENED_URL.
C14_UpdateFailuresAreTyped ==
    [][\A r \in Reqs :
            (req[r].pc = "update" /\ Done(r)')
            => LET i == req[r].existing.id
                   k2 == req[r].data.shortenedUrl
               IN  /\ findById(urls, i) = NoLink
                        => req'[r].result = "NOT_FOUND"
                   /\ (findById(urls, i) # NoLink /\ k2 # Undef
                       /\ UniqueViolation(urls, i, k2))
                        => req'[r].result = "DUPLICATE_SHORTENED_URL"]_vars

\* C15: incrementAccessCount on a key no stored link holds returns NOT_FOUND and
\* changes no accessCount; on a held key it returns that link's originalUrl and
\* changes nothing but the accessCount of that link.
C15_IncrementFrame ==
    \A r \in Reqs :
        (Done(r) /\ call.op = "incrementAccessCount")
        => LET A == findByShortenedUrl(pre, call.key)
               B == findById(urls, A.id)
           IN  IF A = NoLink
                 THEN req[r].result = "NOT_FOUND" /\ req[r].status = 404
                      /\ urls = pre
                 ELSE /\ req[r].result = "OK"
                      /\ req[r].url = A.originalUrl
                      /\ B = [A EXCEPT !.accessCount = B.accessCount]
                      /\ urls \ {B} = pre \ {A}

\* a second increment of a held key has returned the link's url while another
\* link is stored
C15_Witness ==
    \E r \in Reqs :
        /\ Done(r) /\ call.op = "incrementAccessCount" /\ req[r].result = "OK"
        /\ Cardinality(pre) = 2
        /\ findByShortenedUrl(pre, call.key).accessCount = 1
        /\ req[r].url # Undef

\* C16: getOriginalUrl returns NOT_FOUND exactly when no stored link holds the
\* key, otherwise that link's originalUrl; either way the table is unchanged, in
\* particular no accessCount is incremented.
C16_GetOriginalUrlReadsOnly ==
    \A r \in Reqs :
        (Done(r) /\ call.op = "getOriginalUrl")
        => LET A == findByShortenedUrl(pre, call.key)
           IN  /\ (req[r].result = "NOT_FOUND") <=> (A = NoLink)
               /\ A = NoLink => req[r].status = 404
               /\ A # NoLink
                    => (req[r].result = "OK" /\ req[r].status = 200
                        /\ req[r].url = A.originalUrl)
               /\ urls = pre

\* the url of a link that was accessed once has been returned
C16_Witness ==
    \E r \in Reqs :
        /\ Done(r) /\ call.op = "getOriginalUrl" /\ req[r].result = "OK"
        /\ findByShortenedUrl(pre, call.key).accessCount = 1
        /\ req[r].url = "v"

\* the number of pages of n links at limit links a page
PagesOf(n, limit) == IF n = 0 THEN 1 ELSE (n + limit - 1) \div limit

Replied == pager.state \in {"more", "end"}

SeenIds == {pager.seen[i] : i \in 1..Len(pager.seen)}

\* C17: following nextCursor from no cursor until it is absent, with limit >= 1
\* and no writes, gives ceil(n/limit) pages (one empty page for n = 0), every
\* page but the last of exactly limit links, and every stored id exactly once.
C17_PagesCoverTheCollection ==
    (Replied /\ pager.client = "nextCursor" /\ pager.repo = "drizzle" /\ pager.limit >= 1)
    => /\ \A i \in 1..(Len(pager.sizes) - 1) : pager.sizes[i] = pager.limit
       /\ \A i, j \in 1..Len(pager.seen) : i # j => pager.seen[i] # pager.seen[j]
       /\ pager.state = "more" => pager.sizes[Len(pager.sizes)] = pager.limit
       /\ pager.state = "end"
          => /\ Len(pager.sizes) = PagesOf(Cardinality(urls), pager.limit)
             /\ Len(pager.seen) = Cardinality(urls)
             /\ SeenIds = IdsOf(urls)

C17_Witness ==
    /\ pager.client = "nextCursor" /\ pager.repo = "drizzle"
    /\ pager.state = "end" /\ pager.limit = 2
    /\ pager.sizes = <<2, 2, 1>>
    /\ pager.seen = <<1, 2, 3, 4, 5>>

\* the ids a request with this cursor selects from, by the inclusive reading
Selected(rows, cursor) ==
    IF cursor = NoCursor THEN IdsOf(rows) ELSE {i \in IdsOf(rows) : i >= cursor}

PageSet == {pager.page[i] : i \in 1..Len(pager.page)}

\* C18: getAllLinks(limit, cursor) returns in ascending id order the first
\* limit links with id >= cursor (all links without a cursor), the link whose id
\* equals the cursor included; nextCursor is the id of the (limit+1)-th such
\* link when there are more than limit of them, and absent otherwise.
C18_InclusiveCursorPage ==
    Replied
    => LET S == Selected(urls, pager.cursor)
           rest == S \ PageSet
       IN  /\ \A i, j \in 1..Len(pager.page) : i < j => pager.page[i] < pager.page[j]
           /\ PageSet \subseteq S
           /\ \A a \in PageSet, b \in rest : a < b
           /\ Len(pager.page) = IF Cardinality(S) > pager.limit THEN pager.limit
                                ELSE Cardinality(S)
           /\ IF Cardinality(S) > pager.limit
                 THEN pager.nextCursor \in rest /\ \A b \in rest : pager.nextCursor <= b
                 ELSE pager.nextCursor = NoCursor

\* C19: a request whose cursor is the id of the last link of the previous page
\* returns only links after that link in id order, so no link is returned twice.
C19_CursorOfLastSeen ==
    (Replied /\ pager.client = "lastSeen" /\ pager.repo = "drizzle")
    => /\ pager.cursor # NoCursor => \A i \in 1..Len(pager.page) : pager.page[i] > pager.cursor
       /\ \A i, j \in 1..Len(pager.seen) : i # j => pager.seen[i] # pager.seen[j]

\* C20: exportLinksToCSVFile returns success only in a state where the
\* read-and-pipe stage and the upload stage have both completed without error,
\* never while either is still running or has failed.
C20_SuccessAfterBothStages ==
    exp.result = "OK"
    => /\ exp.pc = "done" /\ exp.status = 200
       /\ exp.source = "ended" /\ exp.todo = <<>> /\ exp.buf = <<>>
       /\ exp.pipe = "done"
       /\ exp.upload = "done"
       /\ exp.sent = streamAllLinks(urls)

C20_Witness ==
    /\ exp.result = "OK"
    /\ Cardinality(urls) = 3
    /\ Len(exp.sent) = 4

\* a stage of the export has failed
StageFailed == exp.result = "FAILED" \/ exp.pipe = "failed" \/ exp.upload = "failed"

\* C21: when a stage of the export fails (the stream cannot be obtained, the
\* stream or pipe errors, the upload rejects), exportLinksToCSVFile returns the
\* failure result, answered 500, and no error escapes the operation.
C21_ExportFailureIsReported ==
    /\ ~exp.unhandled
    /\ (StageFailed /\ exp.pc = "done") => (exp.result = "FAILED" /\ exp.status = 500)

\* the operation returns in every run, whatever fails
ExportReturns == <>(exp.pc = "done")

\* C22: when the upload stage fails, the read side is stopped: once the
\* operation has returned its failure, the repository stream is closed or
\* destroyed and produces no more rows.
C22_ReadSideStoppedOnUploadFailure ==
    (exp.pc = "done" /\ exp.upload = "failed")
    => /\ exp.source \in {"ended", "destroyed"}
       /\ ~ENABLED PipeRow

\* the link with the i-th smallest id
NthById(rows, i) == CHOOSE l \in rows : Cardinality({m \in rows : m.id < l.id}) = i - 1

\* the rows the repository stream carries, wherever they are by now
Emitted == exp.sent \o exp.buf \o exp.todo

\* C23: the CSV of a collection that is not written during the export is the
\* header row followed by exactly one data row per stored link, in ascending
\* id order, each row carrying that link's shortenedUrl.
C23_CsvRowsInIdOrder ==
    (exp.source \in {"open", "ended"})
    => /\ Len(Emitted) = Cardinality(urls) + 1
       /\ Emitted[1] = "Original URL,Shortened URL,Access Count,Created At"
       /\ \A i \in 1..Cardinality(urls) :
            LET l == NthById(urls, i)
            IN  Emitted[i + 1] = l.originalUrl \o "," \o l.shortenedUrl \o ","
                    \o ToString(l.accessCount) \o "," \o ToString(l.createdAt)
       /\ exp.upload = "done" => exp.sent = Emitted

C23_Witness ==
    /\ urls = Populated({1, 2, 3})
    /\ exp.upload = "done"
    /\ exp.sent[2] = "u,short0,0,1" /\ exp.sent[3] = "u,short1,0,2" /\ exp.sent[4] = "u,short2,0,3"

SuccessStatuses == {200, 201, 204}

C25_RepositoriesAgree ==
    Replied
    => LET d == getAllLinks(urls, pager.limit, pager.cursor)
           m == memoryGetAllLinks(urls, pager.limit, pager.cursor)
       IN  /\ PageIds(d) = PageIds(m)
           /\ d.nextCursor = m.nextCursor
           /\ pager.page = PageIds(d)
           /\ pager.nextCursor = d.nextCursor

\* the request r returns from incrementAccessCount with success in this step
AccessSucceeds(r) ==
    /\ req[r].op = "incrementAccessCount" /\ ~Done(r)
    /\ Done(r)' /\ req'[r].result = "OK"

\* C26: for a link that exists throughout, N concurrent incrementAccessCount
\* requests on its key that all return success raise its accessCount by exactly
\* N: every successful increment adds one to the count the link has, none is lost.
C26_NoIncrementLost ==
    [][\A r \in Reqs :
            LET l == findById(urls, req[r].existing.id)
            IN  (AccessSucceeds(r) /\ l # NoLink /\ l.shortenedUrl = req[r].key)
                => findById(urls', l.id).accessCount = l.accessCount + 1]_vars

\* C27: under any interleaving with deleteLink, updateLink and createLink,
\* when incrementAccessCount(key) returns success with URL u, that call has
\* written the count of exactly one link, the link that was looked up (the one
\* whose originalUrl u is returned); it never succeeds having incremented no
\* link or another link.
C27_IncrementHitsTheLookedUpLink ==
    [][\A r \in Reqs :
            AccessSucceeds(r)
            => LET l == findById(urls, req[r].existing.id)
               IN  /\ l # NoLink
                   /\ urls' = (urls \ {l}) \cup {[l EXCEPT !.accessCount = req[r].current + 1]}]_vars

\* C28: of several concurrent deleteLink requests for the key of the same
\* existing link at most one returns success (204); each other one returns
\* NOT_FOUND (404), as it deleted nothing.
C28_OneDeleteSucceeds ==
    [][\A r \in Reqs :
            (req[r].op = "deleteLink" /\ ~Done(r) /\ Done(r)')
            => /\ req'[r].result = "OK"
                  => (req'[r].status = 204 /\ Cardinality(urls') = Cardinality(urls) - 1)
               /\ req'[r].result # "OK"
                  => (req'[r].result = "NOT_FOUND" /\ req'[r].status = 404 /\ urls' = urls)]_vars

\* C29: for every limit GET /links accepts (there is no lower bound) a client
\* that follows nextCursor reaches a page without nextCursor: whenever
\* nextCursor is returned it is strictly greater than the cursor of the request
\* that produced it.
C29_NextCursorAdvances ==
    (Replied /\ pager.client = "nextCursor" /\ pager.repo = "drizzle"
        /\ pager.nextCursor # NoCursor)
    => pager.nextCursor > pager.cursor

\* how often an id was returned to the client
TimesSeen(i) == Cardinality({j \in 1..Len(pager.seen) : pager.seen[j] = i})

\* C30: while a client follows nextCursor (limit >= 1) and other requests
\* create links with greater ids or delete links between the page requests, the
\* link at nextCursor included, every link that exists from before the first
\* page request until after the last one is returned in exactly one page.
C30_StableLinksSeenOnce ==
    (Replied /\ pager.client = "nextCursor" /\ pager.repo = "drizzle" /\ pager.limit >= 1)
    => /\ \A i \in pager.stable : TimesSeen(i) <= 1
       /\ \A i \in pager.stable :
            (pager.state = "end" \/ i < pager.nextCursor) => TimesSeen(i) = 1

C30_Witness ==
    /\ pager.client = "nextCursor" /\ pager.repo = "drizzle"
    /\ pager.state = "end" /\ pager.limit = 2
    /\ pager.first = {1, 2, 3, 4, 5}
    /\ pager.stable = {1, 2, 4, 5}
    /\ pager.seen = <<1, 2, 4, 5, 6>>

====
